---- MODULE Spec2Model ----
(***************************************************************************)
(* A model of icarogw/catalog.py: the galaxy catalog stored in an HDF5     *)
(* file, the magnitude threshold map (calculate_mthr), the adaptive        *)
(* redshift grid and the checkpointed galaxy density interpolant           *)
(* (calc_dN_by_dzdOmega_interpolant), the EM likelihood term               *)
(* (EM_likelihood_prior_differential_volume) and the density query         *)
(* (effective_galaxy_number_interpolant).                                  *)
(*                                                                         *)
(* Redshifts are integers in a unit chosen so that every point numpy's     *)
(* linspace produces on the modelled inputs is an exact integer; float     *)
(* rounding is not modelled.  Magnitudes are integers in units of 0.01.    *)
(***************************************************************************)
EXTENDS Integers, Sequences, FiniteSets, TLC

\* ------------------------------------------------------------------ bounds
\* largest Nintegration a call is made with
MaxNint == 4
\* largest number of galaxies of a catalog handed to the grid builder
MaxGal == 2
\* number of sky pixels of the catalog (npixels)
NPix == 2
\* the calls of calculate_mthr made on one store
MaxCalls == 2

\* ------------------------------------------------------------ arithmetic
RECURSIVE Gcd(_, _)
Gcd(a, b) == IF b = 0 THEN a ELSE Gcd(b, a % b)

RECURSIVE LcmUpTo(_)
LcmUpTo(n) == IF n <= 1 THEN 1 ELSE (n * LcmUpTo(n - 1)) \div Gcd(n, LcmUpTo(n - 1))

\* The redshift unit: one "coarse" redshift step is U integers, U a multiple
\* of every Nintegration-1 in use, so that linspace is exact.
U == LcmUpTo(MaxNint - 1)

\* 1e-6, the lowest redshift of a galaxy's support and of the grid
ZFloor == U

Max2(a, b) == IF a >= b THEN a ELSE b
Min2(a, b) == IF a <= b THEN a ELSE b

\* onp.linspace(a, b, n): n evenly spaced points, both endpoints exact
Linspace(a, b, n) ==
    [i \in 1..n |-> IF n = 1 THEN a
                    ELSE IF i = n THEN b
                    ELSE a + ((i - 1) * (b - a)) \div (n - 1)]

\* onp.sort: insertion of x into the sorted sequence s
RECURSIVE InsertSorted(_, _)
InsertSorted(s, x) ==
    IF s = << >> THEN << x >>
    ELSE IF x <= Head(s) THEN << x >> \o s
    ELSE << Head(s) >> \o InsertSorted(Tail(s), x)

RECURSIVE SortAsc(_)
SortAsc(s) == IF s = << >> THEN << >> ELSE InsertSorted(SortAsc(Tail(s)), Head(s))

\* onp.unique on a sorted sequence: drops repeated values
RECURSIVE Unique(_)
Unique(s) ==
    IF Len(s) <= 1 THEN s
    ELSE IF s[1] = s[2] THEN Unique(Tail(s))
    ELSE << s[1] >> \o Unique(Tail(s))

\* onp.delete(s, idx): s without the positions in idx
RECURSIVE DeleteAt(_, _, _)
DeleteAt(s, idx, i) ==
    IF i > Len(s) THEN << >>
    ELSE (IF i \in idx THEN << >> ELSE << s[i] >>) \o DeleteAt(s, idx, i + 1)

\* ---------------------------------------------------- redshift grid builder
\* lower and upper end of a galaxy's support window, clipped to [1e-6, zcut]
GalZmin(z, sigmaz, Numsigma) == Max2(z - Numsigma * sigmaz, ZFloor)
GalZmax(z, sigmaz, Numsigma, zcut) == Min2(z + Numsigma * sigmaz, zcut)

\* idx_in_range: the galaxies whose support reaches into [1e-6, zcut]
InRange(z, sigmaz, Numsigma, zcut) ==
    /\ z - Numsigma * sigmaz <= zcut
    /\ z + Numsigma * sigmaz >= ZFloor

RECURSIVE IdxInRange(_, _, _, _, _)
IdxInRange(zs, sigs, Numsigma, zcut, i) ==
    IF i > Len(zs) THEN << >>
    ELSE (IF InRange(zs[i], sigs[i], Numsigma, zcut) THEN << i >> ELSE << >>)
         \o IdxInRange(zs, sigs, Numsigma, zcut, i + 1)

\* a pruning pass that compares with the window width instead of delta
ToEliminateByWidth(merged, width, Nint) ==
    { j \in 1..Len(merged) :
        /\ j % 2 = 0
        /\ j + 1 <= Len(merged)
        /\ merged[j + 1] - merged[j - 1] < width }

\* a pruning pass that drops every point closer than delta to the point before it
ToEliminateAnyClose(merged, width, Nint) ==
    { j \in 2..Len(merged) : (merged[j] - merged[j - 1]) * Nint < width }

\* the positions to_eliminate of one pruning pass: the odd (0-based) position
\* 2k+1 goes when the even neighbours 2k and 2k+2 are closer than
\* delta = (zmax-zmin)/Nintegration.  Positions here are 1-based.
ToEliminate(merged, width, Nint) ==
    { j \in 1..Len(merged) :
        /\ j % 2 = 0
        /\ j + 1 <= Len(merged)
        /\ (merged[j + 1] - merged[j - 1]) * Nint < width }

\* one iteration of the loop over galaxies: merge the galaxy's Nintegration
\* points into the grid and prune
GridIter(z_grid, zmin, zmax, Nint) ==
    LET merged == SortAsc(z_grid \o Linspace(zmin, zmax, Nint))
    IN  DeleteAt(merged, ToEliminate(merged, zmax - zmin, Nint), 1)

\* interpolation_width of the in-range galaxies (positions of idx_in_range)
Widths(zs, sigs, idx, Numsigma, zcut) ==
    [j \in 1..Len(idx) |->
        GalZmax(zs[idx[j]], sigs[idx[j]], Numsigma, zcut)
        - GalZmin(zs[idx[j]], sigs[idx[j]], Numsigma)]

\* onp.argsort(interpolation_width)[::-1]: positions by decreasing width; the
\* sort is stable on arrays this small, so after the reversal equal widths
\* come in decreasing position
RECURSIVE ArgsortDesc(_, _)
ArgsortDesc(w, left) ==
    IF left = {} THEN << >>
    ELSE LET best == CHOOSE j \in left :
                        \A k \in left : w[j] > w[k] \/ (w[j] = w[k] /\ j >= k)
         IN  << best >> \o ArgsortDesc(w, left \ {best})

\* idx_in_range[idx_sorted]: the galaxies in the order the grid loop takes them
GridOrder(zs, sigs, Numsigma, zcut) ==
    LET idx == IdxInRange(zs, sigs, Numsigma, zcut, 1)
        ord == ArgsortDesc(Widths(zs, sigs, idx, Numsigma, zcut), 1..Len(idx))
    IN  [j \in 1..Len(idx) |-> idx[ord[j]]]

\* the width loop raises when a clipped upper end reaches the cosmology's zmax
TooHigh(zs, sigs, Numsigma, zcut, zmaxcosmo) ==
    \E i \in 1..Len(zs) :
        /\ InRange(zs[i], sigs[i], Numsigma, zcut)
        /\ GalZmax(zs[i], sigs[i], Numsigma, zcut) >= zmaxcosmo

RECURSIVE GridLoop(_, _, _, _, _, _, _)
GridLoop(z_grid, todo, zs, sigs, Nint, Numsigma, zcut) ==
    IF todo = << >> THEN z_grid
    ELSE GridLoop(GridIter(z_grid,
                           GalZmin(zs[Head(todo)], sigs[Head(todo)], Numsigma),
                           GalZmax(zs[Head(todo)], sigs[Head(todo)], Numsigma, zcut),
                           Nint),
                  Tail(todo), zs, sigs, Nint, Numsigma, zcut)

\* the z_grid a call computes from the catalog and its arguments
ZGridOf(zs, sigs, Nint, Numsigma, zcut) ==
    Unique(GridLoop(Linspace(ZFloor, zcut, Nint),
                    GridOrder(zs, sigs, Numsigma, zcut),
                    zs, sigs, Nint, Numsigma, zcut))

\* ------------------------------- EM_likelihood_prior_differential_volume
\* A redshift that is not a number.  create_hdf5 drops such galaxies, so
\* only a direct call of the EM term can be handed one.  Every comparison
\* with it is false, every arithmetic result of it is again not a number.
NaN == 0 - 1000 * U
IsNaN(x) == x = NaN

\* user_normal(x, mu, sigma): "nan" when sigma = 0 (a power of zero times an
\* exponential of a division by zero) or an argument is not a number, a
\* positive number otherwise
UserNormalClass(x, mu, sigma) ==
    IF IsNaN(x) \/ IsNaN(mu) \/ IsNaN(sigma) \/ sigma = 0 THEN "nan" ELSE "pos"

\* normfact, the trapezoid integral over zproxy = linspace(zvalmin, zvalmax, 5000):
\* not a number when the integrand is, else positive (the differential
\* comoving volume is positive at every z >= 1e-6)
NormFactClass(zobs, sigmaz, zvalmin, zvalmax) ==
    IF \E x \in { zvalmin, zvalmax } : UserNormalClass(x, zobs, sigmaz) = "nan"
    THEN "nan" ELSE "pos"

\* the test zvalmax <= zvalmin of the early return of all three modes
EmptySupport(zvalmin, zvalmax) ==
    ~IsNaN(zvalmin) /\ ~IsNaN(zvalmax) /\ zvalmax <= zvalmin

\* The value of the function on the grid z: kind "zeros" is the early
\* return of jnp.zeros_like(z), kind "raise" the ValueError('Normalization
\* failed'), kind "vals" an array whose entries are "pos" (a positive
\* number), "zero" or "nan".
EM_likelihood_prior_differential_volume(z, zobs, sigmaz, Numsigma, ptype) ==
    LET nanin == IsNaN(zobs) \/ IsNaN(sigmaz)
        zvalmin == IF nanin THEN NaN ELSE Max2(ZFloor, zobs - Numsigma * sigmaz)
        zeros == [i \in 1..Len(z) |-> "zero"]
    IN  IF ptype = "uniform"
        THEN LET zvalmax == IF nanin THEN NaN ELSE zobs + Numsigma * sigmaz
             IN  IF EmptySupport(zvalmin, zvalmax)
                 THEN [kind |-> "zeros", vals |-> zeros]
                 ELSE [kind |-> "vals",
                       vals |-> [i \in 1..Len(z) |->
                                   IF nanin THEN "nan"
                                   ELSE IF z[i] >= zobs - Numsigma * sigmaz
                                           /\ z[i] <= zobs + Numsigma * sigmaz
                                   THEN "pos" ELSE "zero"]]
        ELSE \* "gaussian" and "gaussian_nocom"
             LET zvalmax == IF nanin THEN NaN ELSE zobs + 5 * sigmaz
             IN  IF EmptySupport(zvalmin, zvalmax)
                 THEN [kind |-> "zeros", vals |-> zeros]
                 ELSE IF NormFactClass(zobs, sigmaz, zvalmin, zvalmax) # "pos"
                 THEN [kind |-> "raise", vals |-> zeros]
                 ELSE [kind |-> "vals", vals |-> [i \in 1..Len(z) |-> "pos"]]

\* ------------------------------------------------------------ input sets
\* redshifts, redshift uncertainties, cuts and half widths calls are made with
ZVals == { 0, U, 2 * U, 5 * U }
SigmaVals == { 0, U, 3 * U }
ZCuts == { U, 3 * U, 6 * U }
\* cosmo_ref.zmax
CosmoZmax == 6 * U
NumsigmaVals == { 1, 2 }
NintVals == 2..MaxNint

\* ---------------------------------------------------------------- state
VARIABLES
    g_args,   \* the grid builder's inputs: z, sigmaz of the catalog, Nintegration, Numsigma, zcut
    g_pc,     \* where the grid builder stands
    g_grid,   \* its z_grid
    g_todo,   \* the galaxies the grid loop has still to take
    em_args,  \* the arguments of a call of EM_likelihood_prior_differential_volume
    em_pc,    \* "off", "call" (not yet run), "returned" or "raised"
    em_out,   \* the array it returned
    catalog,  \* the datasets of the HDF5 group 'catalog': name -> array
    Ngal,     \* its attribute Ngal
    created,  \* cat_data, the datasets create_hdf5 wrote
    hdf5_open, \* whether self.hdf5pointer is an open file
    ig_exists, \* whether the group 'catalog/dNgal_dzdOm_interpolant' exists
    ig_attrs, \* its attributes: name -> value
    ig_dsets, \* its datasets z_grid and pixel_grid: name -> array
    ig_vals,  \* its datasets vals_pixel_<i>: i -> column
    b_pc,     \* where a call of calc_dN_by_dzdOmega_interpolant stands
    b_args,   \* its arguments, Numsigma as overridden for the gaussian modes
    b_indx,   \* its indx_sky
    b_i,      \* its loop variable over skyloop
    b_zgrid,  \* its z_grid
    b_resumed, \* whether it took the except branch of lines 447-450
    b_result, \* how the last call ended: "none", "done", "interrupted" or the exception
    mg_exists, \* whether the group 'catalog/mthr_map' exists
    mg_attrs, \* its attributes: name -> value
    mg_sky,   \* its dataset mthr_sky
    mt_pc,    \* where a call of calculate_mthr stands
    mt_args,  \* its arguments mthr_percentile, nside_mthr
    mt_skypix, \* its skypixmthr
    mt_i,     \* its loop variable indx
    mt_tokeep, \* its tokeep
    mt_v,     \* the position of vv in the list of line 337
    mt_tosave, \* its tosave
    mt_input, \* the catalog datasets as the call found them
    mt_calls, \* the arguments of the calls made so far, in order
    mt_result, \* how the last call ended
    mthr_map, \* self.mthr_map: not set, 'empty' or an array
    sch_fun,  \* self.sch_fun: not set, or the cosmology its build_MF last got
    interp,   \* self.z_grid and self.dNgal_dzdOm_vals, set when loaded
    hdf5_mode, \* the mode self.hdf5pointer was opened with
    q_pc,     \* per query thread: where its call of effective_galaxy_number_interpolant stands
    q_args,   \* per query thread: the arguments z, skypos, cosmology, average
    q_res,    \* per query thread: what the last call returned or raised
    l_result  \* how the last load_hdf5 or calculate_mthr('empty') of the query model ended

gridvars == << g_args, g_pc, g_grid, g_todo >>
emvars == << em_args, em_pc, em_out >>
catvars == << catalog, Ngal, created >>
storevars == << hdf5_open, ig_exists, ig_attrs, ig_dsets, ig_vals >>
buildvars == << b_pc, b_args, b_indx, b_i, b_zgrid, b_resumed, b_result >>
mgvars == << mg_exists, mg_attrs, mg_sky >>
mthrvars == << mt_pc, mt_args, mt_skypix, mt_i, mt_tokeep, mt_v, mt_tosave, mt_input,
               mt_calls, mt_result >>
objvars == << mthr_map, sch_fun, interp, hdf5_mode >>
queryvars == << q_pc, q_args, q_res, l_result >>
vars == << gridvars, emvars, catvars, storevars, buildvars, mgvars, mthrvars, objvars,
           queryvars >>

\* what the steps of one function leave alone: the state of the others
GridFrame ==
    UNCHANGED << emvars, catvars, storevars, buildvars, mgvars, mthrvars, objvars, queryvars >>
EMFrame ==
    UNCHANGED << gridvars, catvars, storevars, buildvars, mgvars, mthrvars, objvars, queryvars >>
BuildFrame == UNCHANGED << gridvars, emvars, catvars, mgvars, mthrvars, objvars, queryvars >>
MthrFrame ==
    UNCHANGED << gridvars, emvars, storevars, buildvars, sch_fun, interp, hdf5_mode, queryvars >>
QueryFrame == UNCHANGED << gridvars, emvars, catvars, buildvars, mthrvars >>

\* ------------------------------------------------------ the HDF5 store
\* the empty function, of a group without attributes or datasets
NoEntries == << >>

\* the catalog datasets create_hdf5 writes for the galaxies gals, a sequence
\* of records [ra, dec, z, sigmaz, m]; a galaxy's sky position ra is given as
\* the index of the pixel it falls in, which radec2indeces returns
MkCatalog(gals) ==
    [name \in { "ra", "dec", "z", "sigmaz", "m", "sky_indices" } |->
        [i \in 1..Len(gals) |->
            CASE name = "ra" -> gals[i].ra
              [] name = "dec" -> gals[i].dec
              [] name = "z" -> gals[i].z
              [] name = "sigmaz" -> gals[i].sigmaz
              [] name = "m" -> gals[i].m
              [] name = "sky_indices" -> gals[i].ra]]

StoreOff ==
    /\ catalog = MkCatalog(<< >>)
    /\ Ngal = 0
    /\ created = MkCatalog(<< >>)
    /\ hdf5_open = FALSE
    /\ ig_exists = FALSE
    /\ ig_attrs = NoEntries
    /\ ig_dsets = NoEntries
    /\ ig_vals = NoEntries

\* the arguments and local variables of a call that is not running
NoArgs == [epsilon |-> 1, Nintegration |-> 2, Numsigma |-> 1, zcut |-> 3 * U,
           ptype |-> "uniform"]
buildlocals == << b_args, b_indx, b_i, b_zgrid, b_resumed >>
LocalsAre(a, indx, i, zg, r) ==
    /\ b_args = a
    /\ b_indx = indx
    /\ b_i = i
    /\ b_zgrid = zg
    /\ b_resumed = r
SetLocals(a, indx, i, zg, r) ==
    /\ b_args' = a
    /\ b_indx' = indx
    /\ b_i' = i
    /\ b_zgrid' = zg
    /\ b_resumed' = r
NoLocals == LocalsAre(NoArgs, 0, 0, << >>, FALSE)
DropLocals == SetLocals(NoArgs, 0, 0, << >>, FALSE)

BuildOff ==
    /\ b_pc = "off"
    /\ NoLocals
    /\ b_result = "none"

\* ------------------------------------- calc_dN_by_dzdOmega_interpolant
Pixels == 0..(NPix - 1)

\* a column that sums the terms of the galaxies of every pixel
ColumnOfAllSky(cat, z_grid, pixel, Numsigma, zcut, ptype) ==
    LET idx == IdxInRange(cat["z"], cat["sigmaz"], Numsigma, zcut, 1)
        term(g) == EM_likelihood_prior_differential_volume(z_grid,
                       cat["z"][idx[g]], cat["sigmaz"][idx[g]], Numsigma, ptype)
    IN  [kind |-> IF \E g \in 1..Len(idx) : term(g).kind = "raise" THEN "raise" ELSE "ok",
         col |-> [j \in 1..Len(z_grid) |->
                    { idx[g] : g \in { h \in 1..Len(idx) : term(h).vals[j] = "pos" } }]]

\* the column of one pixel on z_grid (lines 510-528): entry j is the set of
\* the catalog rows whose term is positive at z_grid[j]; the luminosity
\* weight absM_rate.evaluate is a positive factor.  The empty set is the
\* NaN of a zero sum and of a pixel without galaxies.  kind is "raise" when
\* the EM term of one of the pixel's galaxies raises.
ColumnOf(cat, z_grid, pixel, Numsigma, zcut, ptype) ==
    LET idx == IdxInRange(cat["z"], cat["sigmaz"], Numsigma, zcut, 1)
        gal_index == { g \in 1..Len(idx) : cat["sky_indices"][idx[g]] = pixel }
        term(g) == EM_likelihood_prior_differential_volume(z_grid,
                       cat["z"][idx[g]], cat["sigmaz"][idx[g]], Numsigma, ptype)
    IN  [kind |-> IF \E g \in gal_index : term(g).kind = "raise" THEN "raise" ELSE "ok",
         col |-> [j \in 1..Len(z_grid) |->
                    { idx[g] : g \in { h \in gal_index : term(h).vals[j] = "pos" } }]]

\* a loop that stores the index of the pixel after the one it is starting
CheckpointAhead(i) == i + 1

\* the value line 509 stores as sky_checkpoint in iteration i of the pixel loop
CheckpointAt(i) == i

\* the attributes a fresh group gets (lines 441-445)
FreshAttrs(a) ==
    [name \in { "epsilon", "ptype", "Nintegration", "Numsigma", "zcut" } |->
        CASE name = "epsilon" -> a.epsilon
          [] name = "ptype" -> a.ptype
          [] name = "Nintegration" -> a.Nintegration
          [] name = "Numsigma" -> a.Numsigma
          [] name = "zcut" -> a.zcut]

\* lines 435-437: the gaussian modes override Numsigma
OverrideNumsigma(a) ==
    [a EXCEPT !.Numsigma = IF a.ptype \in { "gaussian", "gaussian_nocom" } THEN 5 ELSE @]

\* the arguments calls are made with
BuildArgs ==
    { [epsilon |-> 1, Nintegration |-> 3, Numsigma |-> 1, zcut |-> 6 * U, ptype |-> "uniform"],
      [epsilon |-> 1, Nintegration |-> 2, Numsigma |-> 1, zcut |-> 6 * U, ptype |-> "uniform"],
      [epsilon |-> 1, Nintegration |-> 3, Numsigma |-> 1, zcut |-> 3 * U, ptype |-> "uniform"],
      [epsilon |-> 1, Nintegration |-> 3, Numsigma |-> 1, zcut |-> 3 * U, ptype |-> "gaussian"] }

\* the call ends with exception e
B_RaiseWith(e) ==
    /\ b_pc' = "idle"
    /\ b_result' = e
    /\ DropLocals

\* lines 431-450: the call opens the group or creates it
B_Call ==
    /\ b_pc = "idle"
    /\ \E args \in BuildArgs :
         LET a == OverrideNumsigma(args)
         IN  IF ~hdf5_open
             THEN \* the file was closed by a finished call: line 431 raises
                  /\ B_RaiseWith("ValueError: file is closed")
                  /\ UNCHANGED storevars
             ELSE IF ~ig_exists
             THEN /\ ig_exists' = TRUE
                  /\ ig_attrs' = FreshAttrs(a)
                  /\ SetLocals(a, 0, 0, << >>, FALSE)
                  /\ b_pc' = "select"
                  /\ b_result' = "none"
                  /\ UNCHANGED << hdf5_open, ig_dsets, ig_vals >>
             ELSE IF "sky_checkpoint" \in DOMAIN ig_attrs
             THEN /\ SetLocals(a, ig_attrs["sky_checkpoint"], ig_attrs["sky_checkpoint"],
                               << >>, TRUE)
                  /\ b_pc' = "select"
                  /\ b_result' = "none"
                  /\ UNCHANGED storevars
             ELSE \* line 449 finds no checkpoint in the group
                  /\ B_RaiseWith("KeyError: sky_checkpoint")
                  /\ UNCHANGED storevars
    /\ BuildFrame

\* lines 452-499: the galaxies in range, the widths, the grid
B_Select ==
    /\ b_pc = "select"
    /\ LET a == b_args
           idx == IdxInRange(catalog["z"], catalog["sigmaz"], a.Numsigma, a.zcut, 1)
       IN  IF Len(idx) = 0
           THEN \* line 463 formats the undefined name maxz
                B_RaiseWith("NameError: maxz")
           ELSE IF TooHigh(catalog["z"], catalog["sigmaz"], a.Numsigma, a.zcut, CosmoZmax)
           THEN \* line 471 prints the undefined names minz, maxz
                B_RaiseWith("NameError: minz")
           ELSE /\ b_zgrid' = ZGridOf(catalog["z"], catalog["sigmaz"],
                                      a.Nintegration, a.Numsigma, a.zcut)
                /\ b_pc' = "writegrid"
                /\ UNCHANGED << b_result, b_args, b_indx, b_i, b_resumed >>
    /\ UNCHANGED storevars
    /\ BuildFrame

\* lines 501-506: a call that starts at pixel 0 stores z_grid and pixel_grid
B_WriteGrid ==
    /\ b_pc = "writegrid"
    /\ IF b_indx = 0
       THEN IF "z_grid" \in DOMAIN ig_dsets
            THEN /\ B_RaiseWith("ValueError: name already exists")
                 /\ UNCHANGED ig_dsets
            ELSE /\ ig_dsets' = [name \in { "z_grid", "pixel_grid" } |->
                                    IF name = "z_grid" THEN b_zgrid
                                    ELSE [k \in 1..NPix |-> k - 1]]
                 /\ b_pc' = "checkpoint"
                 /\ UNCHANGED << b_result, buildlocals >>
       ELSE /\ b_pc' = "checkpoint"
            /\ UNCHANGED << ig_dsets, b_result, buildlocals >>
    /\ UNCHANGED << hdf5_open, ig_exists, ig_attrs, ig_vals >>
    /\ BuildFrame

\* line 509: the loop stores its index as the checkpoint
B_Checkpoint ==
    /\ b_pc = "checkpoint"
    /\ ig_attrs' = [name \in DOMAIN ig_attrs \cup { "sky_checkpoint" } |->
                      IF name = "sky_checkpoint" THEN CheckpointAt(b_i) ELSE ig_attrs[name]]
    /\ b_pc' = "pixel"
    /\ UNCHANGED << hdf5_open, ig_exists, ig_dsets, ig_vals,
                    b_args, b_indx, b_i, b_zgrid, b_resumed, b_result >>
    /\ BuildFrame

\* lines 510-529: the column of pixel i is computed and stored
B_Pixel ==
    /\ b_pc = "pixel"
    /\ LET c == ColumnOf(catalog, b_zgrid, b_i, b_args.Numsigma, b_args.zcut, b_args.ptype)
       IN  IF c.kind = "raise"
           THEN /\ B_RaiseWith("ValueError: Normalization failed")
                /\ UNCHANGED ig_vals
           ELSE IF b_i \in DOMAIN ig_vals
           THEN /\ B_RaiseWith("ValueError: name already exists")
                /\ UNCHANGED ig_vals
           ELSE /\ ig_vals' = [p \in DOMAIN ig_vals \cup { b_i } |->
                                 IF p = b_i THEN c.col ELSE ig_vals[p]]
                /\ IF b_i + 1 < NPix
                   THEN b_i' = b_i + 1 /\ b_pc' = "checkpoint"
                   ELSE b_i' = b_i /\ b_pc' = "close"
                /\ UNCHANGED << b_result, b_args, b_indx, b_zgrid, b_resumed >>
    /\ UNCHANGED << hdf5_open, ig_exists, ig_attrs, ig_dsets >>
    /\ BuildFrame

\* line 531: the finished call closes the file
B_Close ==
    /\ b_pc = "close"
    /\ hdf5_open' = FALSE
    /\ b_pc' = "idle"
    /\ b_result' = "done"
    /\ DropLocals
    /\ UNCHANGED << ig_exists, ig_attrs, ig_dsets, ig_vals >>
    /\ BuildFrame

\* the call is interrupted between two of its steps; the file stays open
B_Interrupt ==
    /\ b_pc \in { "select", "writegrid", "checkpoint", "pixel", "close" }
    /\ b_pc' = "idle"
    /\ b_result' = "interrupted"
    /\ DropLocals
    /\ UNCHANGED storevars
    /\ BuildFrame

\* the galaxies of the catalogs the builds run on: [ra, dec, z, sigmaz, m]
BuildGals ==
    { [ra |-> p, dec |-> 0, z |-> k[1], sigmaz |-> k[2], m |-> 1800] :
        p \in Pixels, k \in { << 2 * U, U >>, << U, 3 * U >>, << 5 * U, U >> } }

\* create_hdf5 with the galaxies gals (lines 189-205)
Created(gals) ==
    /\ catalog = MkCatalog(gals)
    /\ Ngal = Len(gals)
    /\ created = MkCatalog(gals)
    /\ hdf5_open = TRUE

BuildStart ==
    /\ \E n \in 0..MaxGal : \E gals \in [1..n -> BuildGals] : Created(gals)
    /\ ig_exists = FALSE
    /\ ig_attrs = NoEntries
    /\ ig_dsets = NoEntries
    /\ ig_vals = NoEntries
    /\ b_pc = "idle"
    /\ NoLocals
    /\ b_result = "none"

\* ------------------------------------------------------- calculate_mthr
\* the value of nside_mthr that stands for None
None == 0

\* the value of mthr_percentile that stands for the string 'empty'
Empty == 0 - 1

\* the catalog's attribute nside
Nside == 2

\* LOWERL, which mthr_sky is filled with when it is created
LOWERL == 0 - 1000000

\* the pixel, at resolution nside, of the position whose pixel at the
\* catalog's resolution is ra
radec2indeces(ra, nside) == (ra * nside) \div Nside

\* the position of the centre of pixel indx of the catalog's resolution
indices2radec(indx) == indx

\* the elements of a set of integers in increasing order (onp.where)
RECURSIVE AscSeq(_)
AscSeq(S) ==
    IF S = {} THEN << >>
    ELSE LET lo == CHOOSE x \in S : \A y \in S : x <= y
         IN  << lo >> \o AscSeq(S \ { lo })

\* s[idx] for a sequence idx of positions
Select(s, idx) == [k \in 1..Len(idx) |-> s[idx[k]]]

\* onp.percentile(s, p) with linear interpolation, s not empty
Percentile(s, p) ==
    LET sorted == SortAsc(s)
        h == p * (Len(s) - 1)
        lo == h \div 100
        fr == h % 100
    IN  IF fr = 0 THEN sorted[lo + 1]
        ELSE sorted[lo + 1] + ((sorted[lo + 2] - sorted[lo + 1]) * fr) \div 100

\* numpy broadcasting of two one-dimensional arrays
Broadcastable(a, b) == Len(a) = Len(b) \/ Len(a) = 1 \/ Len(b) = 1
BLen(a, b) == IF Len(a) = 1 THEN Len(b) ELSE Len(a)
At(a, k) == IF Len(a) = 1 THEN a[1] ELSE a[k]

\* the datasets of the catalog in the order of lines 200 and 337
CatNames == << "ra", "dec", "z", "sigmaz", "m", "sky_indices" >>

\* a filter that also drops the galaxies as bright as the threshold
KeepRowStrict(m, thr) == m < thr

\* line 336: the galaxies kept are those not fainter than their threshold
KeepRow(m, thr) == m <= thr

\* lines 335-336: castmthr and tokeep
Tokeep(cat, sky) ==
    LET cast == [k \in 1..Len(cat["sky_indices"]) |-> sky[cat["sky_indices"][k] + 1]]
    IN  AscSeq({ k \in 1..BLen(cat["m"], cast) : KeepRow(At(cat["m"], k), At(cast, k)) })

\* the group attributes with one of them set
WithAttr(attrs, name, val) ==
    [n \in DOMAIN attrs \cup { name } |-> IF n = name THEN val ELSE attrs[n]]

\* the arguments calls are made with
MthrArgs ==
    { [mthr_percentile |-> 50, nside_mthr |-> None],
      [mthr_percentile |-> 50, nside_mthr |-> 1],
      [mthr_percentile |-> Empty, nside_mthr |-> None] }

\* the values of self.mthr_map
MapUnset == [kind |-> "unset", sky |-> << >>]
MapEmpty == [kind |-> "empty", sky |-> << >>]
MapArray(sky) == [kind |-> "array", sky |-> sky]

\* the local variables of a call that is not running
NoMthrArgs == [mthr_percentile |-> 50, nside_mthr |-> Nside]
mthrlocals == << mt_args, mt_skypix, mt_i, mt_tokeep, mt_v, mt_tosave, mt_input >>
MthrLocalsAre(a, sp, i, tk, v, ts, inp) ==
    /\ mt_args = a
    /\ mt_skypix = sp
    /\ mt_i = i
    /\ mt_tokeep = tk
    /\ mt_v = v
    /\ mt_tosave = ts
    /\ mt_input = inp
SetMthrLocals(a, sp, i, tk, v, ts, inp) ==
    /\ mt_args' = a
    /\ mt_skypix' = sp
    /\ mt_i' = i
    /\ mt_tokeep' = tk
    /\ mt_v' = v
    /\ mt_tosave' = ts
    /\ mt_input' = inp
DropMthrLocals == SetMthrLocals(NoMthrArgs, << >>, 0, << >>, 1, << >>, NoEntries)

MthrOff ==
    /\ mg_exists = FALSE
    /\ mg_attrs = NoEntries
    /\ mg_sky = << >>
    /\ mt_pc = "off"
    /\ MthrLocalsAre(NoMthrArgs, << >>, 0, << >>, 1, << >>, NoEntries)
    /\ mt_calls = << >>
    /\ mt_result = "none"

\* the call ends with exception e
M_RaiseWith(e) ==
    /\ mt_pc' = "idle"
    /\ mt_result' = e
    /\ DropMthrLocals

\* the call goes on at the step pc
M_Goto(pc) ==
    /\ mt_pc' = pc
    /\ UNCHANGED mt_result

\* lines 301-304: the call reads ra and dec and pixelizes them at nside_mthr
M_Call ==
    /\ mt_pc = "idle"
    /\ Len(mt_calls) < MaxCalls
    /\ \E args \in MthrArgs :
         LET a == [args EXCEPT !.nside_mthr = IF @ = None THEN Nside ELSE @]
         IN  /\ mt_calls' = Append(mt_calls, args)
             /\ IF ~({ "ra", "dec" } \subseteq DOMAIN catalog)
                THEN M_RaiseWith("KeyError: dataset")
                ELSE IF ~Broadcastable(catalog["ra"], catalog["dec"])
                THEN M_RaiseWith("ValueError: broadcast")
                ELSE /\ SetMthrLocals(a,
                            [k \in 1..BLen(catalog["ra"], catalog["dec"]) |->
                                radec2indeces(At(catalog["ra"], k), a.nside_mthr)],
                            0, << >>, 1, << >>, catalog)
                     /\ mt_pc' = "open"
                     /\ mt_result' = "none"
    /\ UNCHANGED << catvars, mgvars, mthr_map >>
    /\ MthrFrame

\* lines 306-318: the group is created, or opened at its checkpoint
M_Open ==
    /\ mt_pc = "open"
    /\ LET after == IF mt_args.mthr_percentile = Empty THEN "empty" ELSE "checkpoint"
       IN  IF ~mg_exists
           THEN /\ mg_exists' = TRUE
                /\ mg_attrs' = [n \in { "mthr_percentile", "nside_mthr" } |-> mt_args[n]]
                /\ mg_sky' = [k \in 1..NPix |-> LOWERL]
                /\ mt_i' = 0
                /\ M_Goto(after)
                /\ UNCHANGED << mt_args, mt_skypix, mt_tokeep, mt_v, mt_tosave, mt_input >>
           ELSE IF "sky_checkpoint" \in DOMAIN mg_attrs
           THEN /\ mt_i' = mg_attrs["sky_checkpoint"]
                /\ M_Goto(after)
                /\ UNCHANGED << mgvars, mt_args, mt_skypix, mt_tokeep, mt_v, mt_tosave,
                                mt_input >>
           ELSE \* line 315 finds no checkpoint in the group
                /\ M_RaiseWith("KeyError: sky_checkpoint")
                /\ UNCHANGED mgvars
    /\ UNCHANGED << catvars, mt_calls, mthr_map >>
    /\ MthrFrame

\* line 323: the loop stores its index as the checkpoint
M_Checkpoint ==
    /\ mt_pc = "checkpoint"
    /\ mg_attrs' = WithAttr(mg_attrs, "sky_checkpoint", mt_i)
    /\ M_Goto("pixel")
    /\ UNCHANGED << catvars, mg_exists, mg_sky, mthrlocals, mt_calls, mthr_map >>
    /\ MthrFrame

\* lines 324-330: the threshold of pixel indx
M_Pixel ==
    /\ mt_pc = "pixel"
    /\ LET bigpix == radec2indeces(indices2radec(mt_i), mt_args.nside_mthr)
           ind == { k \in 1..Len(mt_skypix) : mt_skypix[k] = bigpix }
           next == /\ IF mt_i + 1 < NPix
                      THEN mt_i' = mt_i + 1 /\ M_Goto("checkpoint")
                      ELSE mt_i' = mt_i /\ M_Goto("tokeep")
                   /\ UNCHANGED << mt_args, mt_skypix, mt_tokeep, mt_v, mt_tosave, mt_input >>
       IN  IF ind = {}
           THEN next /\ UNCHANGED mg_sky
           ELSE IF "m" \notin DOMAIN catalog
           THEN M_RaiseWith("KeyError: dataset") /\ UNCHANGED mg_sky
           ELSE IF \E k \in ind : k > Len(catalog["m"])
           THEN M_RaiseWith("IndexError: out of range") /\ UNCHANGED mg_sky
           ELSE IF mg_attrs["mthr_percentile"] = Empty
           THEN \* onp.percentile of the stored string 'empty'
                M_RaiseWith("TypeError: percentile") /\ UNCHANGED mg_sky
           ELSE /\ mg_sky' = [mg_sky EXCEPT ![mt_i + 1] =
                                 Percentile(Select(catalog["m"], AscSeq(ind)),
                                            mg_attrs["mthr_percentile"])]
                /\ next
    /\ UNCHANGED << catvars, mg_exists, mg_attrs, mt_calls, mthr_map >>
    /\ MthrFrame

\* lines 335-336: the galaxies to keep
M_Tokeep ==
    /\ mt_pc = "tokeep"
    /\ IF ~({ "sky_indices", "m" } \subseteq DOMAIN catalog)
       THEN M_RaiseWith("KeyError: dataset")
       ELSE IF ~Broadcastable(catalog["m"], catalog["sky_indices"])
       THEN M_RaiseWith("ValueError: broadcast")
       ELSE /\ mt_tokeep' = Tokeep(catalog, mg_sky)
            /\ mt_v' = 1
            /\ M_Goto("del")
            /\ UNCHANGED << mt_args, mt_skypix, mt_i, mt_tosave, mt_input >>
    /\ UNCHANGED << catvars, mgvars, mt_calls, mthr_map >>
    /\ MthrFrame

\* lines 338-339: the rows to keep of dataset vv are read and vv is deleted
M_Del ==
    /\ mt_pc = "del"
    /\ LET vv == CatNames[mt_v]
       IN  IF vv \notin DOMAIN catalog
           THEN M_RaiseWith("KeyError: dataset") /\ UNCHANGED catalog
           ELSE IF \E k \in 1..Len(mt_tokeep) : mt_tokeep[k] > Len(catalog[vv])
           THEN M_RaiseWith("IndexError: out of range") /\ UNCHANGED catalog
           ELSE /\ mt_tosave' = Select(catalog[vv], mt_tokeep)
                /\ catalog' = [n \in DOMAIN catalog \ { vv } |-> catalog[n]]
                /\ M_Goto("create")
                /\ UNCHANGED << mt_args, mt_skypix, mt_i, mt_tokeep, mt_v, mt_input >>
    /\ UNCHANGED << Ngal, created, mgvars, mt_calls, mthr_map >>
    /\ MthrFrame

\* line 340: dataset vv is created again with the rows kept
M_Create ==
    /\ mt_pc = "create"
    /\ catalog' = [n \in DOMAIN catalog \cup { CatNames[mt_v] } |->
                     IF n = CatNames[mt_v] THEN mt_tosave ELSE catalog[n]]
    /\ IF mt_v < Len(CatNames)
       THEN mt_v' = mt_v + 1 /\ M_Goto("del")
       ELSE mt_v' = mt_v /\ M_Goto("ngal")
    /\ UNCHANGED << mt_args, mt_skypix, mt_i, mt_tokeep, mt_tosave, mt_input >>
    /\ UNCHANGED << Ngal, created, mgvars, mt_calls, mthr_map >>
    /\ MthrFrame

\* lines 342-344: Ngal is set and the map is kept by the object
M_Ngal ==
    /\ mt_pc = "ngal"
    /\ Ngal' = Len(mt_tokeep)
    /\ mthr_map' = MapArray(mg_sky)
    /\ mt_pc' = "idle"
    /\ mt_result' = "done"
    /\ DropMthrLocals
    /\ UNCHANGED << catalog, created, mgvars, mt_calls >>
    /\ MthrFrame

\* lines 347-348: with 'empty' the checkpoint is set to the last pixel
M_Empty ==
    /\ mt_pc = "empty"
    /\ mg_attrs' = WithAttr(mg_attrs, "sky_checkpoint", NPix - 1)
    /\ mthr_map' = MapEmpty
    /\ mt_pc' = "idle"
    /\ mt_result' = "done"
    /\ DropMthrLocals
    /\ UNCHANGED << catvars, mg_exists, mg_sky, mt_calls >>
    /\ MthrFrame

\* the call is interrupted between two of its steps
M_Interrupt ==
    /\ mt_pc \in { "open", "checkpoint", "pixel", "tokeep", "del", "create", "ngal", "empty" }
    /\ mt_pc' = "idle"
    /\ mt_result' = "interrupted"
    /\ DropMthrLocals
    /\ UNCHANGED << catvars, mgvars, mt_calls, mthr_map >>
    /\ MthrFrame

\* the galaxies of the catalogs the thresholds are computed on
MthrGals ==
    { [ra |-> p, dec |-> 0, z |-> 2 * U, sigmaz |-> U, m |-> mag] :
        p \in Pixels, mag \in { 1700, 1900 } }

\* the object that create_hdf5 leaves: no threshold map, no luminosity model
ObjOff ==
    /\ mthr_map = MapUnset
    /\ sch_fun = [kind |-> "unset", cosmo |-> 0]
    /\ interp = [loaded |-> FALSE, z_grid |-> << >>, vals |-> << >>]
    /\ hdf5_mode = "r+"

\* the catalogs: the galaxies pixel by pixel, in each pixel by magnitude
Ordered(gals) ==
    \A k \in 1..(Len(gals) - 1) :
        \/ gals[k].ra < gals[k + 1].ra
        \/ gals[k].ra = gals[k + 1].ra /\ gals[k].m <= gals[k + 1].m

MthrStart ==
    /\ \E n \in 0..MaxGal : \E gals \in { g \in [1..n -> MthrGals] : Ordered(g) } : Created(gals)
    /\ ig_exists = FALSE
    /\ ig_attrs = NoEntries
    /\ ig_dsets = NoEntries
    /\ ig_vals = NoEntries
    /\ mg_exists = FALSE
    /\ mg_attrs = NoEntries
    /\ mg_sky = << >>
    /\ mt_pc = "idle"
    /\ MthrLocalsAre(NoMthrArgs, << >>, 0, << >>, 1, << >>, NoEntries)
    /\ mt_calls = << >>
    /\ mt_result = "none"

\* --------------------------------------------- the grid builder, step by step
GridOff ==
    /\ g_args = [zs |-> << >>, sigs |-> << >>, Nint |-> 2, Numsigma |-> 1, zcut |-> 3 * U]
    /\ g_pc = "off"
    /\ g_grid = << >>
    /\ g_todo = << >>

GridStart ==
    /\ \E n \in 1..MaxGal :
         \E zs \in [1..n -> ZVals], sigs \in [1..n -> SigmaVals],
            Nint \in NintVals, Numsigma \in NumsigmaVals, zcut \in ZCuts :
            g_args = [zs |-> zs, sigs |-> sigs, Nint |-> Nint,
                      Numsigma |-> Numsigma, zcut |-> zcut]
    /\ g_pc = "select"
    /\ g_grid = << >>
    /\ g_todo = << >>

\* lines 460-480: select the galaxies in range, find and sort the widths,
\* start the grid
G_Select ==
    /\ g_pc = "select"
    /\ LET a == g_args
           idx == IdxInRange(a.zs, a.sigs, a.Numsigma, a.zcut, 1)
       IN  IF Len(idx) = 0 \/ TooHigh(a.zs, a.sigs, a.Numsigma, a.zcut, CosmoZmax)
           THEN /\ g_pc' = "raised"
                /\ UNCHANGED << g_grid, g_todo >>
           ELSE /\ g_pc' = "loop"
                /\ g_grid' = Linspace(ZFloor, a.zcut, a.Nint)
                /\ g_todo' = GridOrder(a.zs, a.sigs, a.Numsigma, a.zcut)
    /\ UNCHANGED g_args
    /\ GridFrame

\* lines 483-494: one galaxy of the grid loop
G_Iter ==
    /\ g_pc = "loop"
    /\ g_todo # << >>
    /\ LET a == g_args
           i == Head(g_todo)
       IN  g_grid' = GridIter(g_grid,
                              GalZmin(a.zs[i], a.sigs[i], a.Numsigma),
                              GalZmax(a.zs[i], a.sigs[i], a.Numsigma, a.zcut),
                              a.Nint)
    /\ g_todo' = Tail(g_todo)
    /\ UNCHANGED << g_args, g_pc >>
    /\ GridFrame

\* line 496
G_Unique ==
    /\ g_pc = "loop"
    /\ g_todo = << >>
    /\ g_grid' = Unique(g_grid)
    /\ g_pc' = "done"
    /\ UNCHANGED << g_args, g_todo >>
    /\ GridFrame

\* ------------------------------------------------ the EM term, called alone
\* the grid the term is evaluated on in these calls
EMGrid == Linspace(ZFloor, 6 * U, 4)
PtypeVals == { "uniform", "gaussian", "gaussian_nocom" }

EMOff ==
    /\ em_args = [zobs |-> 0, sigmaz |-> 0, Numsigma |-> 1, ptype |-> "uniform"]
    /\ em_pc = "off"
    /\ em_out = << >>

EMStart ==
    /\ \E zobs \in ZVals \cup { NaN }, sigmaz \in SigmaVals, Numsigma \in NumsigmaVals \cup { 5 },
          ptype \in PtypeVals :
          em_args = [zobs |-> zobs, sigmaz |-> sigmaz, Numsigma |-> Numsigma, ptype |-> ptype]
    /\ em_pc = "call"
    /\ em_out = << >>

\* lines 54-105, a call that returns
EM_Return ==
    /\ em_pc = "call"
    /\ LET r == EM_likelihood_prior_differential_volume(EMGrid, em_args.zobs,
                     em_args.sigmaz, em_args.Numsigma, em_args.ptype)
       IN  /\ r.kind # "raise"
           /\ em_pc' = "returned"
           /\ em_out' = r.vals
    /\ UNCHANGED em_args
    /\ EMFrame

\* lines 75-81 and 95-101, a call that raises ValueError('Normalization failed')
EM_Raise ==
    /\ em_pc = "call"
    /\ EM_likelihood_prior_differential_volume(EMGrid, em_args.zobs,
           em_args.sigmaz, em_args.Numsigma, em_args.ptype).kind = "raise"
    /\ em_pc' = "raised"
    /\ UNCHANGED << em_args, em_out >>
    /\ EMFrame

\* ---------------------- load_hdf5 and effective_galaxy_number_interpolant
\* the threads that query one catalog object
Threads == { 1, 2 }

\* the cosmologies queries and loads are made with
Cosmologies == { 1, 2 }

\* -jnp.inf as a magnitude threshold
NegInf == LOWERL - 1

\* galaxy_MF(band=...): a luminosity model whose build_MF was not called
NewMF == [kind |-> "made", cosmo |-> 0]

\* sch_fun.build_MF(cosmology): the luminosity model is built for the cosmology
build_MF(sf, cosmology) == [sf EXCEPT !.cosmo = cosmology]

\* sch_fun.background_effective_galaxy_density(thr) * cosmology.dVc_by_dzdOmega_at_z(z):
\* a value decided by the cosmology the luminosity model was built for, the
\* thresholds and the cosmology of the volume
background(sf, thr, cosmology) == [mf |-> sf.cosmo, thr |-> thr, vol |-> cosmology]

\* lines 269-280: the stored columns, NaN taken as -inf, exponentiated: entry
\* [j][p] is "pos" or "zero" for grid point j and pixel p - 1
LoadedVals(zg, vals) ==
    [j \in 1..Len(zg) |-> [p \in 1..NPix |-> IF vals[p - 1][j] = {} THEN "zero" ELSE "pos"]]

\* jnp.mean over the pixels of one row of dNgal_dzdOm_vals (line 278)
SkyMean(row) == IF \E p \in 1..Len(row) : row[p] = "pos" THEN "pos" ELSE "zero"

\* linear interpolation of the values col on the grid zg at z, 0 outside of it
Interp1(z, zg, col) ==
    IF Len(zg) = 0 \/ z < zg[1] \/ z > zg[Len(zg)] THEN "zero"
    ELSE IF \E j \in 1..Len(zg) : zg[j] = z
    THEN col[CHOOSE j \in 1..Len(zg) : zg[j] = z]
    ELSE LET j == CHOOSE i \in 1..(Len(zg) - 1) : zg[i] < z /\ z < zg[i + 1]
         IN  IF col[j] = "pos" \/ col[j + 1] = "pos" THEN "pos" ELSE "zero"

\* what a call returns or raises
NoBg == [mf |-> 0, thr |-> << >>, vol |-> 0]
NoRes == [kind |-> "none", err |-> "", gc |-> << >>, bg |-> NoBg]
Raised(e) == [kind |-> "raised", err |-> e, gc |-> << >>, bg |-> NoBg]
Returned(gc, bg) == [kind |-> "returned", err |-> "", gc |-> gc, bg |-> bg]

\* lines 560-561: the result of the 'empty' mode
EmptyBranch(a, sf) ==
    Returned([k \in 1..Len(a.z) |-> "zero"],
             background(sf, [k \in 1..Len(a.z) |-> NegInf], a.cosmology))

\* lines 554-576: the query after its build_MF, with the luminosity model sf,
\* the threshold map map and the loaded tables itp
QueryResult(a, sf, map, itp) ==
    IF map.kind = "unset" THEN Raised("AttributeError: mthr_map")
    ELSE IF map.kind = "empty" THEN EmptyBranch(a, sf)
    ELSE IF ~itp.loaded THEN Raised("AttributeError: z_grid")
    ELSE LET zg == itp.z_grid
             thr == [k \in 1..Len(a.z) |->
                        IF a.z[k] > zg[Len(zg)] THEN NegInf
                        ELSE map.sky[a.skypos[k] + 1]]
             col(p) == [j \in 1..Len(zg) |->
                           IF a.average THEN SkyMean(itp.vals[j]) ELSE itp.vals[j][p + 1]]
         IN  Returned([k \in 1..Len(a.z) |-> Interp1(a.z[k], zg, col(a.skypos[k]))],
                      background(sf, thr, a.cosmology))

\* the grid of the stored tables and the redshifts queried: between its
\* points and above it
StoredGrid == << 2 * U, 4 * U >>
QueryZ == { 3 * U, 7 * U }

\* the arguments of the queries of thread t, which come with cosmology t
QueryArgs(t) ==
    { [z |-> << zq >>, skypos |-> << p >>, cosmology |-> t, average |-> av] :
        zq \in QueryZ, p \in Pixels, av \in BOOLEAN }
NoQueryArgs == [z |-> << >>, skypos |-> << >>, cosmology |-> 0, average |-> FALSE]

\* lines 551-553: the query calls build_MF of the luminosity model
Q_Begin(t) ==
    /\ q_pc[t] \in { "idle", "done" }
    /\ \E a \in QueryArgs(t) :
         IF sch_fun.kind = "unset"
         THEN /\ q_res' = [q_res EXCEPT ![t] = Raised("AttributeError: sch_fun")]
              /\ q_pc' = [q_pc EXCEPT ![t] = "done"]
              /\ q_args' = [q_args EXCEPT ![t] = NoQueryArgs]
              /\ UNCHANGED sch_fun
         ELSE /\ sch_fun' = build_MF(sch_fun, a.cosmology)
              /\ q_pc' = [q_pc EXCEPT ![t] = "built"]
              /\ q_args' = [q_args EXCEPT ![t] = a]
              /\ q_res' = [q_res EXCEPT ![t] = NoRes]
    /\ UNCHANGED << storevars, mgvars, mthr_map, interp, hdf5_mode, l_result >>
    /\ QueryFrame

\* lines 554-576: the densities are computed and returned
Q_Finish(t) ==
    /\ q_pc[t] = "built"
    /\ q_res' = [q_res EXCEPT ![t] = QueryResult(q_args[t], sch_fun, mthr_map, interp)]
    /\ q_pc' = [q_pc EXCEPT ![t] = "done"]
    /\ q_args' = [q_args EXCEPT ![t] = NoQueryArgs]
    /\ UNCHANGED << storevars, mgvars, objvars, l_result >>
    /\ QueryFrame

\* load_hdf5(filename, cosmo_ref), lines 222-286, as a whole, between two
\* queries; reopen says whether h5py lets the file be opened again while the
\* object holds it open
Q_Load ==
    /\ \A t \in Threads : q_pc[t] # "built"
    /\ \E cosmo_ref \in Cosmologies \cup { None }, reopen \in BOOLEAN :
         LET map == IF mg_exists
                    THEN IF mg_attrs["mthr_percentile"] = Empty THEN MapEmpty
                         ELSE MapArray(mg_sky)
                    ELSE mthr_map
             sf == IF cosmo_ref = None THEN NewMF ELSE build_MF(NewMF, cosmo_ref)
             lens == { Len(ig_vals[p]) : p \in DOMAIN ig_vals }
         IN  IF hdf5_open /\ ~reopen
             THEN \* line 222 fails
                  /\ l_result' = "OSError: unable to open file"
                  /\ UNCHANGED << hdf5_open, objvars >>
             ELSE /\ hdf5_open' = TRUE
                  /\ hdf5_mode' = "r"
                  /\ sch_fun' = sf
                  /\ mthr_map' = map
                  /\ IF cosmo_ref = None
                     THEN l_result' = "ValueError: no cosmology" /\ UNCHANGED interp
                     ELSE IF ~ig_exists \/ ~(Pixels \subseteq DOMAIN ig_vals)
                             \/ "z_grid" \notin DOMAIN ig_dsets
                     THEN l_result' = "KeyError: dataset" /\ UNCHANGED interp
                     ELSE IF Cardinality(lens) > 1
                     THEN l_result' = "ValueError: column_stack" /\ UNCHANGED interp
                     ELSE /\ interp' = [loaded |-> TRUE, z_grid |-> ig_dsets["z_grid"],
                                        vals |-> LoadedVals(ig_dsets["z_grid"], ig_vals)]
                          /\ l_result' = "done"
    /\ UNCHANGED << ig_exists, ig_attrs, ig_dsets, ig_vals, mgvars, q_pc, q_args, q_res >>
    /\ QueryFrame

\* calculate_mthr('empty') as a whole, between two queries: lines 301-316
\* and 345-348
Q_EmptyMthr ==
    /\ \A t \in Threads : q_pc[t] # "built"
    /\ IF ~hdf5_open
       THEN \* the object has no hdf5pointer
            /\ l_result' = "AttributeError: hdf5pointer"
            /\ UNCHANGED << mgvars, mthr_map >>
       ELSE IF hdf5_mode = "r"
       THEN \* the file cannot be written: create_group fails, or line 347 does
            /\ l_result' = IF ~mg_exists THEN "KeyError: mthr_map"
                           ELSE IF "sky_checkpoint" \notin DOMAIN mg_attrs
                           THEN "KeyError: sky_checkpoint"
                           ELSE "Error: file is read-only"
            /\ UNCHANGED << mgvars, mthr_map >>
       ELSE IF ~mg_exists
       THEN /\ mg_exists' = TRUE
            /\ mg_attrs' = [n \in { "mthr_percentile", "nside_mthr", "sky_checkpoint" } |->
                              CASE n = "mthr_percentile" -> Empty
                                [] n = "nside_mthr" -> Nside
                                [] n = "sky_checkpoint" -> NPix - 1]
            /\ mg_sky' = [k \in 1..NPix |-> LOWERL]
            /\ mthr_map' = MapEmpty
            /\ l_result' = "done"
       ELSE IF "sky_checkpoint" \in DOMAIN mg_attrs
       THEN /\ mg_attrs' = WithAttr(mg_attrs, "sky_checkpoint", NPix - 1)
            /\ mthr_map' = MapEmpty
            /\ l_result' = "done"
            /\ UNCHANGED << mg_exists, mg_sky >>
       ELSE /\ l_result' = "KeyError: sky_checkpoint"
            /\ UNCHANGED << mgvars, mthr_map >>
    /\ UNCHANGED << storevars, sch_fun, interp, hdf5_mode, q_pc, q_args, q_res >>
    /\ QueryFrame

\* the threshold groups a finished calculate_mthr leaves in a store
StoredMaps ==
    { [attrs |-> [n \in { "mthr_percentile", "nside_mthr", "sky_checkpoint" } |->
                     CASE n = "mthr_percentile" -> pc
                       [] n = "nside_mthr" -> Nside
                       [] n = "sky_checkpoint" -> NPix - 1],
       sky |-> [k \in 1..NPix |-> IF pc = Empty \/ k > 1 THEN LOWERL ELSE 1800]] :
      pc \in { Empty, 50 } }

\* the columns a finished calc_dN_by_dzdOmega_interpolant leaves in a store:
\* per pixel, NaN at every grid point or the term of a galaxy at every one
StoredColumns ==
    [Pixels -> { [j \in 1..Len(StoredGrid) |-> {}], [j \in 1..Len(StoredGrid) |-> { 1 }] }]

QueryOff ==
    /\ q_pc = << >>
    /\ q_args = << >>
    /\ q_res = << >>
    /\ l_result = "none"

\* either the object create_hdf5 has just made, or a new object and the
\* store an earlier process has left
QueryStart ==
    /\ catalog = MkCatalog(<< [ra |-> 0, dec |-> 0, z |-> 2 * U, sigmaz |-> U, m |-> 1700] >>)
    /\ created = catalog
    /\ Ngal = 1
    /\ \/ /\ hdf5_open = TRUE
          /\ mg_exists = FALSE /\ mg_attrs = NoEntries /\ mg_sky = << >>
          /\ ig_exists = FALSE /\ ig_attrs = NoEntries /\ ig_dsets = NoEntries
          /\ ig_vals = NoEntries
       \/ /\ hdf5_open = FALSE
          /\ \/ mg_exists = FALSE /\ mg_attrs = NoEntries /\ mg_sky = << >>
             \/ \E g \in StoredMaps : mg_exists = TRUE /\ mg_attrs = g.attrs /\ mg_sky = g.sky
          /\ \/ /\ ig_exists = FALSE /\ ig_attrs = NoEntries /\ ig_dsets = NoEntries
                /\ ig_vals = NoEntries
             \/ /\ ig_exists = TRUE
                /\ ig_attrs = WithAttr(FreshAttrs(NoArgs), "sky_checkpoint", NPix - 1)
                /\ ig_dsets = [n \in { "z_grid", "pixel_grid" } |->
                                 IF n = "z_grid" THEN StoredGrid
                                 ELSE [k \in 1..NPix |-> k - 1]]
                /\ ig_vals \in StoredColumns
    /\ mt_pc = "off"
    /\ MthrLocalsAre(NoMthrArgs, << >>, 0, << >>, 1, << >>, NoEntries)
    /\ mt_calls = << >>
    /\ mt_result = "none"
    /\ ObjOff
    /\ q_pc = [t \in Threads |-> "idle"]
    /\ q_args = [t \in Threads |-> NoQueryArgs]
    /\ q_res = [t \in Threads |-> NoRes]
    /\ l_result = "none"

\* ------------------------------------------------------ specifications
GridInit == GridStart /\ EMOff /\ StoreOff /\ BuildOff /\ MthrOff /\ ObjOff /\ QueryOff
GridNext == G_Select \/ G_Iter \/ G_Unique

SpecGrid == GridInit /\ [][GridNext]_vars

BuildInit == BuildStart /\ GridOff /\ EMOff /\ MthrOff /\ ObjOff /\ QueryOff
BuildNext ==
    B_Call \/ B_Select \/ B_WriteGrid \/ B_Checkpoint \/ B_Pixel \/ B_Close \/ B_Interrupt

SpecBuild == BuildInit /\ [][BuildNext]_vars

EMInit == EMStart /\ GridOff /\ StoreOff /\ BuildOff /\ MthrOff /\ ObjOff /\ QueryOff
EMNext == EM_Return \/ EM_Raise

SpecEM == EMInit /\ [][EMNext]_vars

MthrInit == MthrStart /\ GridOff /\ EMOff /\ BuildOff /\ ObjOff /\ QueryOff
MthrNext ==
    M_Call \/ M_Open \/ M_Checkpoint \/ M_Pixel \/ M_Tokeep \/ M_Del \/ M_Create \/ M_Ngal
    \/ M_Empty \/ M_Interrupt
SpecMthr == MthrInit /\ [][MthrNext]_vars

QueryInit == QueryStart /\ GridOff /\ EMOff /\ BuildOff
QueryNext == Q_Load \/ Q_EmptyMthr \/ \E t \in Threads : Q_Begin(t) \/ Q_Finish(t)
SpecQuery == QueryInit /\ [][QueryNext]_vars

\* C6: in both gaussian modes a call with sigmaz = 0 raises the normalization
\* error and never returns an array
C6_DegenerateRaises ==
    (em_pc # "call" /\ em_args.ptype \in { "gaussian", "gaussian_nocom" }
        /\ em_args.sigmaz = 0)
    => em_pc = "raised"

StrictlyIncreasing(s) == \A i \in 1..(Len(s) - 1) : s[i] < s[i + 1]

\* C10: the grid calc_dN_by_dzdOmega_interpolant builds is strictly
\* increasing, starts at 1e-6, ends at zcut and lies in [1e-6, zcut]
C10_GridShape ==
    g_pc = "done" =>
        /\ Len(g_grid) >= 1
        /\ StrictlyIncreasing(g_grid)
        /\ g_grid[1] = ZFloor
        /\ g_grid[Len(g_grid)] = g_args.zcut
        /\ \A i \in 1..Len(g_grid) : ZFloor <= g_grid[i] /\ g_grid[i] <= g_args.zcut

\* every point the grid loop has merged: the first linspace and the
\* Nintegration points of each galaxy in range
CandidatePoints(a) ==
    { Linspace(ZFloor, a.zcut, a.Nint)[k] : k \in 1..a.Nint }
    \cup UNION { { Linspace(GalZmin(a.zs[j], a.sigs[j], a.Numsigma),
                            GalZmax(a.zs[j], a.sigs[j], a.Numsigma, a.zcut),
                            a.Nint)[k] : k \in 1..a.Nint }
                 : j \in { i \in 1..Len(a.zs) :
                             InRange(a.zs[i], a.sigs[i], a.Numsigma, a.zcut) } }

\* a finished grid from which the pruning pass has removed a point for good,
\* built from a galaxy clipped at 1e-6 and one clipped at zcut
C10_Witness ==
    /\ g_pc = "done"
    /\ Len(g_grid) < Cardinality(CandidatePoints(g_args))
    /\ \E j \in 1..Len(g_args.zs) :
          g_args.zs[j] - g_args.Numsigma * g_args.sigs[j] < ZFloor

\* ------------------------------------------- the build and its checkpoint
\* the arguments the group's attributes persist
PersistedArgs ==
    [name \in { "epsilon", "ptype", "Nintegration", "Numsigma", "zcut" } |-> ig_attrs[name]]

\* the store holds the table one uninterrupted call with the persisted
\* arguments builds: z_grid and one column per pixel
TableIsFullBuild ==
    /\ DOMAIN ig_vals = Pixels
    /\ "z_grid" \in DOMAIN ig_dsets
    /\ LET a == PersistedArgs
           zg == ZGridOf(catalog["z"], catalog["sigmaz"], a["Nintegration"],
                         a["Numsigma"], a["zcut"])
       IN  /\ ig_dsets["z_grid"] = zg
           /\ \A p \in Pixels :
                ig_vals[p] = ColumnOf(catalog, zg, p, a["Numsigma"], a["zcut"], a["ptype"]).col

\* a call with the persisted arguments that has resumed at a pixel whose
\* column is already stored, and has itself stored nothing yet: the call
\* after an interruption right after that pixel's column was stored
ResumedAfterStoredPixel ==
    /\ b_pc \in { "select", "writegrid", "checkpoint", "pixel" }
    /\ b_resumed
    /\ FreshAttrs(b_args) = PersistedArgs
    /\ b_i = b_indx
    /\ b_indx \in DOMAIN ig_vals

\* C1: a call that resumes with identical inputs after an interruption right
\* after pixel k's column was stored raises nothing and ends with the table
\* of one uninterrupted build
C1_ResumeAfterPixel ==
    [][ResumedAfterStoredPixel =>
          /\ b_result' \in { "none", "interrupted", "done" }
          /\ (b_result' = "done" => TableIsFullBuild')]_vars

\* every pixel below the persisted checkpoint has its column
BelowCheckpointStored ==
    "sky_checkpoint" \in DOMAIN ig_attrs =>
        \A p \in Pixels : p < ig_attrs["sky_checkpoint"] => p \in DOMAIN ig_vals

\* C2: in every state, a crash's included, every pixel below sky_checkpoint
\* has a stored column; a column is stored only for the pixel the checkpoint
\* names, above every pixel stored before; the checkpoint never goes back
C2_CheckpointAfterColumn ==
    [][/\ BelowCheckpointStored'
       /\ DOMAIN ig_vals \subseteq DOMAIN ig_vals'
       /\ \A p \in DOMAIN ig_vals' \ DOMAIN ig_vals :
            /\ p = ig_attrs["sky_checkpoint"]
            /\ \A q \in DOMAIN ig_vals : q < p
       /\ ("sky_checkpoint" \in DOMAIN ig_attrs =>
             /\ "sky_checkpoint" \in DOMAIN ig_attrs'
             /\ ig_attrs'["sky_checkpoint"] >= ig_attrs["sky_checkpoint"])]_vars

\* a call interrupted after it advanced the checkpoint to a pixel past the
\* first and before it stored that pixel's column
C2_Witness ==
    /\ b_pc = "idle"
    /\ b_result = "interrupted"
    /\ "sky_checkpoint" \in DOMAIN ig_attrs
    /\ ig_attrs["sky_checkpoint"] >= 1
    /\ ig_attrs["sky_checkpoint"] \notin DOMAIN ig_vals
    /\ \A p \in Pixels : p < ig_attrs["sky_checkpoint"] => p \in DOMAIN ig_vals

\* ------------------------------------------------- the magnitude thresholds
\* a catalog whose six datasets are there and have one row per galaxy
WellFormed(cat) ==
    /\ DOMAIN cat = { CatNames[v] : v \in 1..Len(CatNames) }
    /\ \A n \in DOMAIN cat : Len(cat[n]) = Len(cat["m"])

\* the rows of cat whose magnitude is at most the threshold sky has for their pixel
Survivors(cat, sky) ==
    AscSeq({ k \in 1..Len(cat["m"]) : cat["m"][k] <= sky[cat["sky_indices"][k] + 1] })

\* the datasets of cat cut down to rows
RowsOf(cat, rows) == [n \in DOMAIN cat |-> Select(cat[n], rows)]

\* C3: when a call of calculate_mthr with a numeric percentile finishes, on a
\* catalog it found with all six datasets row-aligned, the catalog holds
\* exactly the rows of that input catalog whose m is <= the threshold stored
\* for their own pixel, in their order, and Ngal is their number
C3_FilterByThreshold ==
    [][ (mt_pc = "ngal" /\ mt_result' = "done" /\ WellFormed(mt_input))
        => LET rows == Survivors(mt_input, mg_sky')
           IN  /\ catalog' = RowsOf(mt_input, rows)
               /\ Ngal' = Len(rows) ]_vars

\* a first call has finished and removed some galaxies and kept others
C3_Witness ==
    /\ mt_result = "done"
    /\ Len(mt_calls) = 1
    /\ mthr_map.kind = "array"
    /\ WellFormed(catalog)
    /\ Ngal = Len(catalog["m"])
    /\ 0 < Ngal
    /\ Ngal < Len(created["m"])

\* the map one uninterrupted call with arguments a computes on the catalog cat
UninterruptedMap(cat, a) ==
    LET nside == IF a.nside_mthr = None THEN Nside ELSE a.nside_mthr
        ind(i) == { k \in 1..Len(cat["ra"]) :
                      radec2indeces(cat["ra"][k], nside)
                          = radec2indeces(indices2radec(i), nside) }
    IN  [p \in 1..NPix |->
            IF ind(p - 1) = {} THEN LOWERL
            ELSE Percentile(Select(cat["m"], AscSeq(ind(p - 1))), a.mthr_percentile)]

\* C4: a call of calculate_mthr that follows one interrupted call with the same
\* arguments, on a store whose group holds a checkpoint (the interruption fell
\* inside the pixel loop or the filtering pass), finishes, and leaves the map
\* and the filtered catalog of one uninterrupted call
C4_ResumeSameResult ==
    [][ ( /\ mt_pc' = "idle"
          /\ mt_pc # "idle" \/ mt_calls' # mt_calls
          /\ mt_result' # "interrupted"
          /\ Len(mt_calls') = 2
          /\ mt_calls'[1] = mt_calls'[2]
          /\ mt_calls'[1].mthr_percentile # Empty
          /\ mthr_map = MapUnset
          /\ "sky_checkpoint" \in DOMAIN mg_attrs )
        => LET sky == UninterruptedMap(created, mt_calls'[1])
           IN  /\ mt_result' = "done"
               /\ mg_sky' = sky
               /\ catalog' = RowsOf(created, Survivors(created, sky))
               /\ Ngal' = Len(Survivors(created, sky)) ]_vars

\* C5: once a call has finished the estimation (the object holds the map),
\* no step changes an entry of mthr_sky, also when calculate_mthr is called
\* again with the arguments of the call that finished
C5_MapImmutable ==
    [][ ( /\ mthr_map.kind = "array"
          /\ \A k \in 1..Len(mt_calls) : mt_calls[k] = mt_calls[1] )
        => mg_sky' = mg_sky ]_vars

\* ------------------------------------------------------------- the query
\* thread t's call ends in this step
QueryEnds(t) == q_pc[t] # "done" /\ q_pc'[t] = "done"

\* all entries of a catalog density are zero
AllZero(gc) == \A k \in 1..Len(gc) : gc[k] = "zero"

\* C7: whatever another thread's query does in between, a query returns what
\* it returns when it runs alone, that is with the luminosity model as its own
\* build_MF left it
C7_ConcurrentQueriesAlone ==
    [][ \A t \in Threads :
          (q_pc[t] = "built" /\ q_pc'[t] = "done")
          => q_res'[t] = QueryResult(q_args[t], build_MF(sch_fun, q_args[t].cosmology),
                                     mthr_map, interp) ]_vars

\* C8: a query that ends while the threshold map is in 'empty' mode has
\* returned, with catalog density 0 at every query point
C8_EmptyModeZero ==
    [][ \A t \in Threads :
          (QueryEnds(t) /\ mthr_map = MapEmpty)
          => /\ q_res'[t].kind = "returned"
             /\ AllZero(q_res'[t].gc) ]_vars

\* C9: a query that ends on an object whose interpolant was not loaded or
\* whose threshold map was never set has returned the result of the
\* empty-map branch: catalog density 0 and the background at full depth
C9_StateErrorDegrades ==
    [][ \A t \in Threads :
          (QueryEnds(t) /\ (~interp.loaded \/ mthr_map = MapUnset))
          => /\ q_res'[t].kind = "returned"
             /\ AllZero(q_res'[t].gc)
             /\ \A k \in 1..Len(q_res'[t].bg.thr) : q_res'[t].bg.thr[k] = NegInf ]_vars

\* ------------------------------------------------- the grid's resolution
\* the in-range galaxies of the grid builder's catalog
GridGalaxies ==
    { j \in 1..Len(g_args.zs) :
        InRange(g_args.zs[j], g_args.sigs[j], g_args.Numsigma, g_args.zcut) }

\* every two consecutive points of the finished grid that lie in the support
\* window of an in-range galaxy are at most (window width)/parts apart
SpacedWithinWindows(parts) ==
    \A j \in GridGalaxies :
        LET zmin == GalZmin(g_args.zs[j], g_args.sigs[j], g_args.Numsigma)
            zmax == GalZmax(g_args.zs[j], g_args.sigs[j], g_args.Numsigma, g_args.zcut)
        IN  \A i \in 1..(Len(g_grid) - 1) :
                (zmin <= g_grid[i] /\ g_grid[i + 1] <= zmax)
                => (g_grid[i + 1] - g_grid[i]) * parts <= zmax - zmin

\* C11 as stated: in the final grid, consecutive points inside the support
\* window of any in-range galaxy are at most (window width)/Nintegration apart
C11_SpacingByNintegration ==
    g_pc = "done" => SpacedWithinWindows(g_args.Nint)

\* C11 amended: in the final grid, consecutive points inside the support
\* window of any in-range galaxy are at most (window width)/(Nintegration-1)
\* apart, the spacing of the Nintegration points that line 486 lays over the
\* window; later, narrower galaxies do not coarsen it beyond that
C11_SpacingOfLinspace ==
    g_pc = "done" => SpacedWithinWindows(g_args.Nint - 1)

\* a finished grid of two galaxies of different widths from which pruning
\* has removed a point, with two grid points inside the wider window
C11_Witness ==
    /\ g_pc = "done"
    /\ Len(g_grid) < Cardinality(CandidatePoints(g_args))
    /\ \E j, k \in GridGalaxies :
          LET zminj == GalZmin(g_args.zs[j], g_args.sigs[j], g_args.Numsigma)
              zmaxj == GalZmax(g_args.zs[j], g_args.sigs[j], g_args.Numsigma, g_args.zcut)
              zmink == GalZmin(g_args.zs[k], g_args.sigs[k], g_args.Numsigma)
              zmaxk == GalZmax(g_args.zs[k], g_args.sigs[k], g_args.Numsigma, g_args.zcut)
          IN  /\ zmaxj - zminj > zmaxk - zmink
              /\ zmaxk - zmink > 0
              /\ \E i \in 1..(Len(g_grid) - 1) : zminj <= g_grid[i] /\ g_grid[i + 1] <= zmaxj


\* the errors the two input checks of lines 461-472 are written to raise
NoGalaxiesError == "ValueError: There are no galaxies in the redshift range"
TooHighError == "ValueError: The maximum redshift for interpolation is too high"

\* C12: when no galaxy's support overlaps [1e-6, zcut] the call fails with
\* the ValueError 'no galaxies in the redshift range', when a galaxy's
\* clipped upper bound reaches the cosmology's zmax it fails with the
\* ValueError 'maximum redshift for interpolation is too high', and no
\* other kind of error is raised on these two paths.
C12_InputErrors ==
    [][(b_pc = "select" /\ b_pc' = "idle" /\ b_result' # "interrupted")
       => LET idx == IdxInRange(catalog["z"], catalog["sigmaz"],
                                b_args.Numsigma, b_args.zcut, 1)
          IN  b_result' = IF Len(idx) = 0 THEN NoGalaxiesError ELSE TooHighError]_vars


\* the galaxies of the catalog in pixel p, and those of them a call with the
\* arguments a selects (idx_in_range, cpind == i)
GalaxiesOf(p) == { g \in 1..Len(catalog["z"]) : catalog["sky_indices"][g] = p }
InRangeOf(p, a) ==
    { g \in GalaxiesOf(p) : InRange(catalog["z"][g], catalog["sigmaz"][g], a.Numsigma, a.zcut) }

\* grid point z lies in the window [z-Numsigma*sigmaz, z+Numsigma*sigmaz] of
\* one of the galaxies of pixel p
InWindowOf(p, z, Numsigma) ==
    \E g \in GalaxiesOf(p) :
        /\ catalog["z"][g] - Numsigma * catalog["sigmaz"][g] <= z
        /\ z <= catalog["z"][g] + Numsigma * catalog["sigmaz"][g]

\* the column col, stored for pixel p by a call with the arguments a on the
\* grid zg, is NaN where the claim says it is
ColumnAsClaimed(col, p, a, zg) ==
    /\ InRangeOf(p, a) = {} => \A j \in 1..Len(col) : col[j] = {}
    /\ a.ptype = "uniform" =>
         \A j \in 1..Len(col) : col[j] # {} => InWindowOf(p, zg[j], a.Numsigma)

\* C13: a call that ends complete leaves one column for every pixel
\* 0..npixels-1; a stored column is never replaced; the column a call stores
\* for a pixel without in-range galaxy is NaN at every grid point, and the
\* column a uniform-mode call stores is non-NaN only at grid points inside
\* the union of the windows [z-Numsigma*sigmaz, z+Numsigma*sigmaz] of the
\* pixel's galaxies.
C13_ColumnsOfBuild ==
    [][/\ b_result' = "done" => DOMAIN ig_vals' = Pixels
       /\ \A p \in DOMAIN ig_vals : p \in DOMAIN ig_vals' /\ ig_vals'[p] = ig_vals[p]
       /\ \A p \in DOMAIN ig_vals' \ DOMAIN ig_vals :
            ColumnAsClaimed(ig_vals'[p], p, b_args, b_zgrid)]_vars

\* a complete uniform-mode build of a catalog with a pixel without galaxies,
\* whose column is NaN everywhere, and a pixel with galaxies, whose column
\* is NaN at some grid points and not at others
C13_Witness ==
    /\ b_result = "done"
    /\ ig_attrs["ptype"] = "uniform"
    /\ DOMAIN ig_vals = Pixels
    /\ \E p \in Pixels :
         /\ GalaxiesOf(p) = {}
         /\ \A j \in 1..Len(ig_vals[p]) : ig_vals[p][j] = {}
    /\ \E p \in Pixels :
         /\ GalaxiesOf(p) # {}
         /\ \E j, k \in 1..Len(ig_vals[p]) : ig_vals[p][j] = {} /\ ig_vals[p][k] # {}


\* the next call would take the resume path (line 447, the group exists) and
\* find no checkpoint to resume from (line 449)
ResumeWithoutCheckpoint == ig_exists /\ "sky_checkpoint" \notin DOMAIN ig_attrs

\* C14: a call that fails on its input checks, or is interrupted before the
\* first pixel's checkpoint is written, leaves no dNgal_dzdOm_interpolant
\* group that sends the next call down the resume path without a
\* sky_checkpoint: no call ends leaving such a group, and no call fails for
\* the lack of the checkpoint.
C14_FailedCallLeavesNoGroup ==
    /\ b_pc = "idle" => ~ResumeWithoutCheckpoint
    /\ b_result # "KeyError: sky_checkpoint"


\* C15: in every state reached by building, interrupting and resuming, the
\* resuming call passing arguments that may differ from the persisted ones,
\* every stored column has the length of the persisted z_grid, and the grid
\* a column is computed on is the persisted z_grid.
C15_ColumnsOnPersistedGrid ==
    [][\A p \in DOMAIN ig_vals' :
          /\ "z_grid" \in DOMAIN ig_dsets'
          /\ Len(ig_vals'[p]) = Len(ig_dsets'["z_grid"])
          /\ p \notin DOMAIN ig_vals => b_zgrid = ig_dsets'["z_grid"]]_vars

============================================================================
